---------------------------- MODULE Spec2Model ----------------------------
(***************************************************************************)
(* A model of the UVM assembler (src/assembler.py): class UVMAssembler,    *)
(* its line parser (parse_line, parse_source), its encoder (assemble) and  *)
(* its numeric decoder (_parse_number).                                    *)
(*                                                                         *)
(* Text is modelled character by character: a Python str is a sequence of  *)
(* one-character strings, so that strip, split, join, upper, startswith    *)
(* and int() are computed the way the interpreter computes them.           *)
(***************************************************************************)
EXTENDS Integers, Sequences, FiniteSets, TLC

VARIABLES
    mnemonics,                    \* self.mnemonics
    pc,                           \* where the current assemble call stands
    source_code,                  \* the argument of the current call
    lines,                        \* parse_source: source_code.split('\n')
    line_num,                     \* parse_source: enumerate(lines, 1)
    commands,                     \* parse_source: the parsed commands
    cmd_idx,                      \* assemble: position of the for loop
    intermediate_representation,  \* assemble: the accumulating output
    result,                       \* what the call returned (NoValue: nothing)
    error,                        \* what the call raised (NoValue: nothing)
    memo                          \* a caller's note of an earlier call's outcome

vars == <<mnemonics, pc, source_code, lines, line_num, commands, cmd_idx,
          intermediate_representation, result, error, memo>>

NoValue == [kind |-> "None"]

---------------------------------------------------------------------------
(* Python str primitives                                                   *)

\* str.isspace() for one character (the ASCII part of it)
IsSpace(c) == c \in {" ", "\t", "\n", "\r"}

RECURSIVE LStrip(_)
\* the left half of str.strip()
LStrip(s) == IF s # <<>> /\ IsSpace(Head(s)) THEN LStrip(Tail(s)) ELSE s

RECURSIVE RStrip(_)
\* the right half of str.strip()
RStrip(s) ==
    IF s # <<>> /\ IsSpace(s[Len(s)]) THEN RStrip(SubSeq(s, 1, Len(s) - 1)) ELSE s

\* str.strip()
Strip(s) == RStrip(LStrip(s))

\* str.startswith(p)
StartsWith(s, p) == Len(s) >= Len(p) /\ SubSeq(s, 1, Len(p)) = p

\* c in s, for a one-character c
Contains(s, c) == \E i \in 1..Len(s) : s[i] = c

RECURSIVE SplitAcc(_, _, _)
\* str.split(sep) for a one-character sep: cur is the field being read
SplitAcc(s, sep, cur) ==
    IF s = <<>> THEN <<cur>>
    ELSE IF Head(s) = sep THEN <<cur>> \o SplitAcc(Tail(s), sep, <<>>)
    ELSE SplitAcc(Tail(s), sep, Append(cur, Head(s)))

\* str.split(sep): always at least one field
Split(s, sep) == SplitAcc(s, sep, <<>>)

RECURSIVE SplitWsAcc(_, _)
\* str.split() with no separator: runs of whitespace separate, no empty token
SplitWsAcc(s, cur) ==
    IF s = <<>> THEN (IF cur = <<>> THEN <<>> ELSE <<cur>>)
    ELSE IF IsSpace(Head(s))
         THEN (IF cur = <<>> THEN <<>> ELSE <<cur>>) \o SplitWsAcc(Tail(s), <<>>)
         ELSE SplitWsAcc(Tail(s), Append(cur, Head(s)))

SplitWs(s) == SplitWsAcc(s, <<>>)

RECURSIVE Join(_, _)
\* sep.join(parts)
Join(sep, parts) ==
    IF parts = <<>> THEN <<>>
    ELSE IF Len(parts) = 1 THEN parts[1]
    ELSE parts[1] \o sep \o Join(sep, Tail(parts))

LowerCase == <<"a","b","c","d","e","f","g","h","i","j","k","l","m",
               "n","o","p","q","r","s","t","u","v","w","x","y","z">>
UpperCase == <<"A","B","C","D","E","F","G","H","I","J","K","L","M",
               "N","O","P","Q","R","S","T","U","V","W","X","Y","Z">>

\* str.upper() for one character
UpperChar(c) ==
    IF \E i \in 1..Len(LowerCase) : LowerCase[i] = c
    THEN UpperCase[CHOOSE i \in 1..Len(LowerCase) : LowerCase[i] = c]
    ELSE c

\* str.upper()
Upper(s) == [i \in 1..Len(s) |-> UpperChar(s[i])]

---------------------------------------------------------------------------
(* int(text, base), as CPython parses it                                   *)

HexDigits == <<"0","1","2","3","4","5","6","7","8","9",
               "a","b","c","d","e","f">>
HexDigitsUpper == <<"0","1","2","3","4","5","6","7","8","9",
                    "A","B","C","D","E","F">>

\* whether c is a digit of the base (10 or 16)
IsDigit(c, base) ==
    \E i \in 1..base : HexDigits[i] = c \/ HexDigitsUpper[i] = c

\* the value of a digit
DigitVal(c) == (CHOOSE i \in 1..16 : HexDigits[i] = c \/ HexDigitsUpper[i] = c) - 1

RECURSIVE DigitsValue(_, _, _)
\* the value of a run of digits; underscores between digits are skipped
DigitsValue(s, base, acc) ==
    IF s = <<>> THEN acc
    ELSE IF Head(s) = "_" THEN DigitsValue(Tail(s), base, acc)
    ELSE DigitsValue(Tail(s), base, acc * base + DigitVal(Head(s)))

\* digits, with single underscores only between two digits
WellFormedDigits(s, base) ==
    /\ s # <<>>
    /\ \A i \in 1..Len(s) : s[i] = "_" \/ IsDigit(s[i], base)
    /\ s[1] # "_" /\ s[Len(s)] # "_"
    /\ \A i \in 1..(Len(s) - 1) : ~(s[i] = "_" /\ s[i + 1] = "_")

\* whether the stripped text starts with a sign
HasSign(t) == t # <<>> /\ t[1] \in {"+", "-"}

\* whether the unsigned text starts with the prefix base 16 allows
HasPrefix(u, base) ==
    base = 16 /\ Len(u) >= 2 /\ u[1] = "0" /\ u[2] \in {"x", "X"}

\* the text after the prefix, and after the one underscore that may follow it
AfterPrefix(u, base) ==
    IF HasPrefix(u, base)
    THEN SubSeq(u, IF Len(u) >= 3 /\ u[3] = "_" THEN 4 ELSE 3, Len(u))
    ELSE u

\* the digits read, or the ValueError whose message quotes text and base
IntOfDigits(w, negative, text, base) ==
    IF WellFormedDigits(w, base)
    THEN [kind |-> "int",
          val  |-> (IF negative THEN 0 - 1 ELSE 1) * DigitsValue(w, base, 0)]
    ELSE [kind |-> "ValueError", text |-> text, base |-> base]

\* int() once the surrounding whitespace is gone: the sign, then the rest
IntOfStripped(t, text, base) ==
    IntOfDigits(AfterPrefix(IF HasSign(t) THEN Tail(t) ELSE t, base),
                HasSign(t) /\ t[1] = "-", text, base)

\* int(text, base): surrounding whitespace, a sign, for base 16 a 0x/0X
\* prefix (and one underscore after it), then the digits
PyInt(text, base) == IntOfStripped(Strip(text), text, base)

\* lines 102-104, on the stripped text
NumberOfStripped(s) ==
    PyInt(IF StartsWith(s, <<"0", "x">>) THEN SubSeq(s, 3, Len(s)) ELSE s,
          IF StartsWith(s, <<"0", "x">>) THEN 16 ELSE 10)

\* UVMAssembler._parse_number
_parse_number(num_str) == NumberOfStripped(Strip(num_str))

---------------------------------------------------------------------------
(* UVMAssembler.parse_line                                                 *)

\* the comment cut taking the text after the last ';' (split(';')[-1])
CutCommentLast(stripped) ==
    IF Contains(stripped, ";")
    THEN Strip(Split(stripped, ";")[Len(Split(stripped, ";"))])
    ELSE stripped

\* the line after the strip of line 21 and the comment cut of lines 28-29
CutComment(stripped) ==
    IF Contains(stripped, ";") THEN Strip(Split(stripped, ";")[1]) ELSE stripped

\* line 24 without its test for a leading ';'
IsSkippedBlankOnly(stripped) == stripped = <<>>

\* whether line 24 returns None
IsSkipped(stripped) == stripped = <<>> \/ StartsWith(stripped, <<";">>)

\* the argument list with its empty arguments dropped
ParseArgsSkipEmpty(parts) ==
    IF Len(parts) > 1
    THEN LET fields == Split(Join(<<" ">>, Tail(parts)), ",")
         IN  SelectSeq([i \in 1..Len(fields) |-> Strip(fields[i])],
                       LAMBDA arg : arg # <<>>)
    ELSE <<>>

\* [arg.strip() for arg in ' '.join(parts[1:]).split(',')], or [] (lines 33-37)
ParseArgs(parts) ==
    IF Len(parts) > 1
    THEN LET fields == Split(Join(<<" ">>, Tail(parts)), ",")
         IN  [i \in 1..Len(fields) |-> Strip(fields[i])]
    ELSE <<>>

\* lines 31-39: the pair returned; parts[0] of an empty list is an IndexError
CommandOf(parts) ==
    IF parts = <<>>
    THEN [kind |-> "IndexError"]
    ELSE [kind     |-> "command",
          mnemonic |-> Upper(parts[1]),
          args     |-> ParseArgs(parts)]

\* lines 24-39, on the stripped line
ParsedStripped(stripped) ==
    IF IsSkipped(stripped)
    THEN NoValue
    ELSE CommandOf(SplitWs(CutComment(stripped)))

\* parse_line: None, a (mnemonic, args) pair, or an exception
parse_line(line) == ParsedStripped(Strip(line))

---------------------------------------------------------------------------
(* UVMAssembler.__init__ and the encoder of UVMAssembler.assemble          *)

LOAD_CONST == <<"L","O","A","D","_","C","O","N","S","T">>
STORE      == <<"S","T","O","R","E">>
BINARY_OP  == <<"B","I","N","A","R","Y","_","O","P">>

\* self.mnemonics as __init__ builds it
MnemonicTable == (LOAD_CONST :> 20) @@ (STORE :> 12) @@ (BINARY_OP :> 19)

\* the exception of line 63
UnknownMnemonic(mnemonic) ==
    [kind |-> "UnknownMnemonic", mnemonic |-> mnemonic]

\* the exceptions of lines 67, 76 and 85-86: the message is a fixed text
\* that names the mnemonic and the number of arguments it requires
ArityMismatch(mnemonic, expected) ==
    [kind |-> "ArityMismatch", mnemonic |-> mnemonic, expected |-> expected]

\* the ValueError int() raises inside _parse_number: its message quotes the
\* text int() was given and the base
InvalidNumber(failure) ==
    [kind |-> "InvalidNumber", text |-> failure.text, base |-> failure.base]

\* the index of the last rejected argument, as if the values were decoded
\* right to left
LastRejected(decoded, n) ==
    IF \E i \in 1..n : decoded[i].kind = "ValueError"
    THEN CHOOSE i \in 1..n :
            /\ decoded[i].kind = "ValueError"
            /\ \A j \in (i + 1)..n : decoded[j].kind = "int"
    ELSE 0

\* the index of the first of the n decoded arguments that _parse_number
\* rejected, 0 if none: the dict displays of lines 68-72, 77-81 and 87-93
\* evaluate their values in the order written, so the first rejected
\* argument is the one whose ValueError leaves assemble
FirstRejected(decoded, n) ==
    IF \E i \in 1..n : decoded[i].kind = "ValueError"
    THEN CHOOSE i \in 1..n :
            /\ decoded[i].kind = "ValueError"
            /\ \A j \in 1..(i - 1) : decoded[j].kind = "int"
    ELSE 0

\* lines 65-72
EncodeLoadConst(table, decoded) ==
    IF Len(decoded) # 2
    THEN [kind |-> "raise", error |-> ArityMismatch(LOAD_CONST, 2)]
    ELSE IF FirstRejected(decoded, 2) # 0
    THEN [kind  |-> "raise",
          error |-> InvalidNumber(decoded[FirstRejected(decoded, 2)])]
    ELSE [kind    |-> "command",
          command |-> [A |-> table[LOAD_CONST],
                       B |-> decoded[1].val,
                       C |-> decoded[2].val]]

\* the STORE branch raising the message of the LOAD_CONST branch
EncodeStoreCopiedMessage(table, decoded) ==
    IF Len(decoded) # 2
    THEN [kind |-> "raise", error |-> ArityMismatch(LOAD_CONST, 2)]
    ELSE IF FirstRejected(decoded, 2) # 0
    THEN [kind  |-> "raise",
          error |-> InvalidNumber(decoded[FirstRejected(decoded, 2)])]
    ELSE [kind    |-> "command",
          command |-> [A |-> table[STORE],
                       B |-> decoded[1].val,
                       C |-> decoded[2].val]]

\* lines 74-81
EncodeStore(table, decoded) ==
    IF Len(decoded) # 2
    THEN [kind |-> "raise", error |-> ArityMismatch(STORE, 2)]
    ELSE IF FirstRejected(decoded, 2) # 0
    THEN [kind  |-> "raise",
          error |-> InvalidNumber(decoded[FirstRejected(decoded, 2)])]
    ELSE [kind    |-> "command",
          command |-> [A |-> table[STORE],
                       B |-> decoded[1].val,
                       C |-> decoded[2].val]]

\* the BINARY_OP branch with the last two fields exchanged
EncodeBinaryOpSwapped(table, decoded) ==
    IF Len(decoded) # 4
    THEN [kind |-> "raise", error |-> ArityMismatch(BINARY_OP, 4)]
    ELSE IF FirstRejected(decoded, 4) # 0
    THEN [kind  |-> "raise",
          error |-> InvalidNumber(decoded[FirstRejected(decoded, 4)])]
    ELSE [kind    |-> "command",
          command |-> [A |-> table[BINARY_OP],
                       B |-> decoded[1].val,
                       C |-> decoded[2].val,
                       D |-> decoded[4].val,
                       E |-> decoded[3].val]]

\* lines 83-93
EncodeBinaryOp(table, decoded) ==
    IF Len(decoded) # 4
    THEN [kind |-> "raise", error |-> ArityMismatch(BINARY_OP, 4)]
    ELSE IF FirstRejected(decoded, 4) # 0
    THEN [kind  |-> "raise",
          error |-> InvalidNumber(decoded[FirstRejected(decoded, 4)])]
    ELSE [kind    |-> "command",
          command |-> [A |-> table[BINARY_OP],
                       B |-> decoded[1].val,
                       C |-> decoded[2].val,
                       D |-> decoded[3].val,
                       E |-> decoded[4].val]]

\* lines 65-93 for a mnemonic of the table. decoded[i] is what
\* _parse_number makes of args[i]; previous is the local `command` as the
\* pass before left it: a mnemonic of the table that none of the three
\* branches names leaves it as it was (unbound on the first pass)
EncodeKnown(table, mnemonic, decoded, previous) ==
    IF mnemonic = LOAD_CONST THEN EncodeLoadConst(table, decoded)
    ELSE IF mnemonic = STORE THEN EncodeStore(table, decoded)
    ELSE IF mnemonic = BINARY_OP THEN EncodeBinaryOp(table, decoded)
    ELSE IF previous = NoValue
    THEN [kind |-> "raise", error |-> [kind |-> "UnboundLocalError"]]
    ELSE [kind |-> "command", command |-> previous]

\* one pass of the loop body, lines 62-93, up to the append: the command
\* built, or the exception raised. _parse_number depends on its argument
\* alone, so each args[i] is decoded here to what lines 70-71, 79-80 and
\* 89-92 decode it to when they reach it
Encode(table, mnemonic, args, previous) ==
    IF mnemonic \notin DOMAIN table
    THEN [kind |-> "raise", error |-> UnknownMnemonic(mnemonic)]
    ELSE EncodeKnown(table, mnemonic,
                     [i \in 1..Len(args) |-> _parse_number(args[i])],
                     previous)

\* a lookup that enters the mnemonic it misses into the table
TableAfterInsert(table, mnemonic) ==
    IF mnemonic \in DOMAIN table THEN table ELSE table @@ (mnemonic :> 0)

\* self.mnemonics after the pass: lines 62-93 only read it
TableAfter(table, mnemonic) == table

\* intermediate_representation = [] (line 59)
FreshOutput == <<>>

\* the command put first instead of last (insert(0, command))
Prepended(output, command) == <<command>> \o output

\* intermediate_representation.append(command) (line 95)
Appended(output, command) == Append(output, command)

\* the exception of line 52
SyntaxError(n, line) == [kind |-> "SyntaxError", line_num |-> n, line |-> line]

---------------------------------------------------------------------------
(* The calls of assemble on one assembler object                           *)

\* a caller's note, once it holds one: which kind of outcome a call on
\* another source had since
Noted(outcome) ==
    IF memo # NoValue /\ memo.source # source_code
    THEN [memo EXCEPT !.between = outcome]
    ELSE memo

\* assemble(source_code) is called (line 56), parse_source is entered and
\* splits the text into lines (lines 43-44)
Call(sources) ==
    /\ pc = "idle"
    /\ \E src \in sources :
        /\ source_code' = src
        /\ lines' = Split(src, "\n")
    /\ line_num' = 1
    /\ commands' = <<>>
    /\ cmd_idx' = 0
    /\ intermediate_representation' = NoValue
    /\ result' = NoValue
    /\ error' = NoValue
    /\ pc' = "parse_source"
    /\ UNCHANGED <<mnemonics, memo>>

\* one pass of the loop of parse_source (lines 46-52)
ParseStep ==
    /\ pc = "parse_source"
    /\ line_num <= Len(lines)
    /\ LET parsed == parse_line(lines[line_num])
       IN  IF parsed.kind = "IndexError"
           THEN /\ error' = SyntaxError(line_num, lines[line_num])
                /\ pc' = "raised"
                /\ memo' = Noted("raised")
                /\ UNCHANGED <<commands, line_num>>
           ELSE /\ commands' = IF parsed.kind = "command"
                               THEN Append(commands,
                                           [mnemonic |-> parsed.mnemonic,
                                            args     |-> parsed.args])
                               ELSE commands
                /\ line_num' = line_num + 1
                /\ UNCHANGED <<error, pc, memo>>
    /\ UNCHANGED <<mnemonics, source_code, lines, cmd_idx,
                   intermediate_representation, result>>

\* parse_source returns (line 54) and assemble starts its loop (lines 58-61)
StartEncode ==
    /\ pc = "parse_source"
    /\ line_num > Len(lines)
    /\ intermediate_representation' = FreshOutput
    /\ cmd_idx' = 1
    /\ pc' = "assemble"
    /\ UNCHANGED <<mnemonics, source_code, lines, line_num, commands,
                   result, error, memo>>

\* the loop of assemble going on past an invalid instruction instead of
\* raising
EncodeStepSkipInvalid ==
    /\ pc = "assemble"
    /\ cmd_idx <= Len(commands)
    /\ LET cmd      == commands[cmd_idx]
           previous == IF intermediate_representation = <<>>
                       THEN NoValue
                       ELSE intermediate_representation[
                                Len(intermediate_representation)]
           encoded  == Encode(mnemonics, cmd.mnemonic, cmd.args, previous)
       IN  /\ mnemonics' = TableAfter(mnemonics, cmd.mnemonic)
           /\ intermediate_representation' =
                  IF encoded.kind = "raise"
                  THEN intermediate_representation
                  ELSE Appended(intermediate_representation, encoded.command)
           /\ cmd_idx' = cmd_idx + 1
    /\ UNCHANGED <<pc, source_code, lines, line_num, commands, result, error,
                   memo>>

\* one pass of the loop of assemble (lines 61-95)
EncodeStep ==
    /\ pc = "assemble"
    /\ cmd_idx <= Len(commands)
    /\ LET cmd      == commands[cmd_idx]
           previous == IF intermediate_representation = <<>>
                       THEN NoValue
                       ELSE intermediate_representation[
                                Len(intermediate_representation)]
           encoded  == Encode(mnemonics, cmd.mnemonic, cmd.args, previous)
       IN  /\ mnemonics' = TableAfter(mnemonics, cmd.mnemonic)
           /\ IF encoded.kind = "raise"
              THEN /\ error' = encoded.error
                   /\ pc' = "raised"
                   /\ memo' = Noted("raised")
                   /\ UNCHANGED <<intermediate_representation, cmd_idx>>
              ELSE /\ intermediate_representation' =
                          Appended(intermediate_representation, encoded.command)
                   /\ cmd_idx' = cmd_idx + 1
                   /\ UNCHANGED <<error, pc, memo>>
    /\ UNCHANGED <<source_code, lines, line_num, commands, result>>

\* return intermediate_representation (line 97)
Return ==
    /\ pc = "assemble"
    /\ cmd_idx > Len(commands)
    /\ result' = intermediate_representation
    /\ pc' = "returned"
    /\ memo' = Noted("returned")
    /\ UNCHANGED <<mnemonics, source_code, lines, line_num, commands, cmd_idx,
                   intermediate_representation, error>>

\* the caller notes the outcome of a finished call, once
Remember ==
    /\ pc \in {"returned", "raised"}
    /\ memo = NoValue
    /\ memo' = [source |-> source_code, result |-> result, error |-> error,
                between |-> "none"]
    /\ UNCHANGED <<mnemonics, pc, source_code, lines, line_num, commands,
                   cmd_idx, intermediate_representation, result, error>>

\* the caller takes the outcome of the finished call; the frame of the call
\* and its locals are gone, and the object is ready for the next call
Proceed ==
    /\ pc \in {"returned", "raised"}
    /\ pc' = "idle"
    /\ source_code' = <<>>
    /\ lines' = <<>>
    /\ line_num' = 0
    /\ commands' = <<>>
    /\ cmd_idx' = 0
    /\ intermediate_representation' = NoValue
    /\ result' = NoValue
    /\ error' = NoValue
    /\ UNCHANGED <<mnemonics, memo>>

\* the assembler object after UVMAssembler(), before any call
Init ==
    /\ mnemonics = MnemonicTable
    /\ pc = "idle"
    /\ source_code = <<>>
    /\ lines = <<>>
    /\ line_num = 0
    /\ commands = <<>>
    /\ cmd_idx = 0
    /\ intermediate_representation = NoValue
    /\ result = NoValue
    /\ error = NoValue
    /\ memo = NoValue

---------------------------------------------------------------------------
(* The source texts the calls are given                                    *)

MaxLines == 3
MaxArgs == 4
MaxTailLen == 3
MaxSourceLen == 5
MaxRepeatLines == 1

\* all sequences over S of length at most n
SeqsUpTo(S, n) == UNION {[1..k -> S] : k \in 0..n}

StoreLine    == <<"S","T","O","R","E"," ","1",","," ","2">>
LoadLine     == <<"l","o","a","d","_","c","o","n","s","t"," ","0","x","1","f",
                  ","," ","5"," ",";"," ","c">>
BinaryLine   == <<"B","I","N","A","R","Y","_","O","P"," ","1",","," ","2",",",
                  " ","3",","," ","4">>
BlankLine    == <<" ">>
CommentLine  == <<";"," ","S","T","O","R","E"," ","1">>
JumpLine     == <<"J","U","M","P"," ","1">>
ShortLine    == <<"S","T","O","R","E"," ","1">>
BadArgLine   == <<"S","T","O","R","E"," ","x",","," ","2">>

\* the lines programs are made of: instructions of the three opcodes (one in
\* lower case, with a hexadecimal argument and a trailing comment), a blank
\* line, a comment line, and one line for each kind of encoder error
ProgramLines ==
    {StoreLine, LoadLine, BinaryLine, BlankLine, CommentLine,
     JumpLine, ShortLine, BadArgLine}

\* programs of at most n lines
Programs(n) == {Join(<<"\n">>, ls) : ls \in SeqsUpTo(ProgramLines, n)}

ProgramSources == Programs(MaxLines)

RepeatSources == Programs(MaxRepeatLines)

\* one-instruction sources: a mnemonic, a blank, the arguments separated by
\* ", ", and possibly a trailing comma
MnemonicTexts ==
    {STORE, <<"l","o","a","d","_","c","o","n","s","t">>, BINARY_OP,
     <<"J","U","M","P">>}

ArgTexts == {<<"7">>, <<"0","x","1","f">>, <<"x">>, <<"0","x","g">>}

\* the three sources of run_specification_tests (lines 118, 125, 132)
TestLoadConst ==
    <<"L","O","A","D","_","C","O","N","S","T"," ","8","1","1",","," ","2",
      "1","3">>
TestStore     == <<"S","T","O","R","E"," ","7","0","9",","," ","4","4","7">>
TestBinaryOp ==
    <<"B","I","N","A","R","Y","_","O","P"," ","1","3","2",","," ","4","1",
      "2",","," ","2","0",","," ","5","8","5">>

InstrSources ==
    {m \o <<" ">> \o Join(<<",", " ">>, args) \o tail :
        m \in MnemonicTexts, args \in SeqsUpTo(ArgTexts, MaxArgs),
        tail \in {<<>>, <<",">>}}
    \cup {TestLoadConst, TestStore, TestBinaryOp}

\* STORE instructions whose first argument is 0x or 0X followed by any text
\* over the characters below
TailChars == {"0", "1", "f", "g", "x", "-", "+", "_", " "}

NumberSources ==
    {STORE \o <<" ">> \o prefix \o tail \o <<",", "1">> :
        prefix \in {<<"0", "x">>, <<"0", "X">>},
        tail \in SeqsUpTo(TailChars, MaxTailLen)}

\* every text over the characters the line parser tells apart
LineChars == {" ", ";", ",", "a", "\n"}

LineSources == SeqsUpTo(LineChars, MaxSourceLen)

---------------------------------------------------------------------------
(* Specifications: the same assembler, called on each family of sources    *)

Next ==
    \/ Call(ProgramSources)
    \/ ParseStep
    \/ StartEncode
    \/ EncodeStep
    \/ Return
    \/ Proceed

Spec == Init /\ [][Next]_vars

NextInstr ==
    \/ Call(InstrSources)
    \/ ParseStep
    \/ StartEncode
    \/ EncodeStep
    \/ Return
    \/ Proceed

SpecInstr == Init /\ [][NextInstr]_vars

NextNumber ==
    \/ Call(NumberSources)
    \/ ParseStep
    \/ StartEncode
    \/ EncodeStep
    \/ Return
    \/ Proceed

SpecNumber == Init /\ [][NextNumber]_vars

NextLine ==
    \/ Call(LineSources)
    \/ ParseStep
    \/ StartEncode
    \/ EncodeStep
    \/ Return
    \/ Proceed

SpecLine == Init /\ [][NextLine]_vars

NextRepeat ==
    \/ Call(RepeatSources)
    \/ ParseStep
    \/ StartEncode
    \/ EncodeStep
    \/ Return
    \/ Proceed
    \/ Remember

SpecRepeat == Init /\ [][NextRepeat]_vars

---------------------------------------------------------------------------
(* What the specification says of the sources above, stated without the    *)
(* parser and the encoder                                                  *)

Finished == pc \in {"returned", "raised"}

\* the source was split into commands: parse_source has returned
Parsed == pc = "assemble" \/ pc = "returned"
              \/ (pc = "raised" /\ error.kind # "SyntaxError")

\* a line that is empty once trimmed
IsBlank(line) == \A i \in 1..Len(line) : IsSpace(line[i])

\* a line whose first character that is not whitespace is ';'
IsCommentLine(line) ==
    \E i \in 1..Len(line) :
        line[i] = ";" /\ \A j \in 1..(i - 1) : IsSpace(line[j])

IsInstructionLine(line) == ~IsBlank(line) /\ ~IsCommentLine(line)

\* the lines that are neither blank nor comment lines, in order
InstructionLines(ls) == SelectSeq(ls, IsInstructionLine)

\* the Mnemonic Table and the arities of section 4.2
ClaimedOpcode == (LOAD_CONST :> 20) @@ (STORE :> 12) @@ (BINARY_OP :> 19)
ClaimedArity  == (LOAD_CONST :> 2) @@ (STORE :> 2) @@ (BINARY_OP :> 4)

\* the record and the error each line of ProgramLines stands for
ExpectedRecord ==
    (StoreLine :> [A |-> 12, B |-> 1, C |-> 2])
    @@ (LoadLine :> [A |-> 20, B |-> 31, C |-> 5])
    @@ (BinaryLine :> [A |-> 19, B |-> 1, C |-> 2, D |-> 3, E |-> 4])

ExpectedError ==
    (JumpLine :> [kind |-> "UnknownMnemonic", mnemonic |-> <<"J","U","M","P">>])
    @@ (ShortLine :> [kind |-> "ArityMismatch", mnemonic |-> STORE,
                      expected |-> 2])
    @@ (BadArgLine :> [kind |-> "InvalidNumber", text |-> <<"x">>,
                       base |-> 10])

ExpectedRecordOf(line) ==
    IF line \in DOMAIN ExpectedRecord THEN ExpectedRecord[line] ELSE NoValue

IsInvalidLine(line) == line \in DOMAIN ExpectedError

\* the index of the first invalid instruction line, in source-line order
FirstInvalid(ls) ==
    CHOOSE i \in 1..Len(ls) :
        IsInvalidLine(ls[i]) /\ \A j \in 1..(i - 1) : ~IsInvalidLine(ls[j])

\* the argument texts of InstrSources: the valid literals with their values
\* (those of the three test sources included), the others with the text and
\* base int() is given (an empty argument is what a trailing comma leaves)
LiteralValue ==
    (<<"7">> :> 7) @@ (<<"0","x","1","f">> :> 31)
    @@ (<<"8","1","1">> :> 811)
    @@ (<<"2","1","3">> :> 213)
    @@ (<<"7","0","9">> :> 709)
    @@ (<<"4","4","7">> :> 447)
    @@ (<<"1","3","2">> :> 132)
    @@ (<<"4","1","2">> :> 412)
    @@ (<<"2","0">> :> 20)
    @@ (<<"5","8","5">> :> 585)

RejectedAs ==
    (<<"x">> :> [text |-> <<"x">>, base |-> 10])
    @@ (<<"0","x","g">> :> [text |-> <<"g">>, base |-> 16])
    @@ (<<>> :> [text |-> <<>>, base |-> 10])

IsValidLiteral(arg) == arg \in DOMAIN LiteralValue

RejectedAsOf(arg) ==
    IF arg \in DOMAIN RejectedAs THEN RejectedAs[arg] ELSE NoValue

\* the leftmost argument that is no valid literal
LeftmostInvalid(args) ==
    CHOOSE i \in 1..Len(args) :
        ~IsValidLiteral(args[i]) /\ \A j \in 1..(i - 1) : IsValidLiteral(args[j])

\* the spellings of the known mnemonics in InstrSources
KnownSpellings ==
    {[text |-> STORE, opcode |-> 12, arity |-> 2],
     [text |-> <<"l","o","a","d","_","c","o","n","s","t">>, opcode |-> 20,
      arity |-> 2],
     [text |-> BINARY_OP, opcode |-> 19, arity |-> 4]}

ValidLiterals ==
    {[text |-> <<"7">>, value |-> 7], [text |-> <<"0","x","1","f">>, value |-> 31]}

\* the record of a well-formed instruction: the opcode, then the values of
\* the arguments in the order written
RecordFor(sp, lits) ==
    IF sp.arity = 2
    THEN [A |-> sp.opcode, B |-> lits[1].value, C |-> lits[2].value]
    ELSE [A |-> sp.opcode, B |-> lits[1].value, C |-> lits[2].value,
          D |-> lits[3].value, E |-> lits[4].value]

\* the well-formed instruction lines of InstrSources, each with its record
WellFormedInstrs ==
    UNION {{[text   |-> sp.text \o <<" ">>
                        \o Join(<<",", " ">>, [i \in 1..sp.arity |-> lits[i].text]),
             arity  |-> sp.arity,
             record |-> RecordFor(sp, lits)] :
                lits \in [1..sp.arity -> ValidLiterals]} : sp \in KnownSpellings}

FieldsOf(opcode) ==
    IF opcode = 19 THEN {"A", "B", "C", "D", "E"} ELSE {"A", "B", "C"}

\* C1: a well-formed instruction line yields one record whose fields are
\* fixed by the opcode ({A,B,C} for LOAD_CONST and STORE, {A..E} for
\* BINARY_OP), whose A is the Mnemonic Table value and whose B, C (, D, E)
\* are the values of arguments 0, 1 (, 2, 3) in that order.
C1_RecordOfWellFormed ==
    /\ (Finished /\ source_code = TestLoadConst) =>
          pc = "returned" /\ result = <<[A |-> 20, B |-> 811, C |-> 213]>>
    /\ (Finished /\ source_code = TestStore) =>
          pc = "returned" /\ result = <<[A |-> 12, B |-> 709, C |-> 447]>>
    /\ (Finished /\ source_code = TestBinaryOp) =>
          /\ pc = "returned"
          /\ result = <<[A |-> 19, B |-> 132, C |-> 412, D |-> 20, E |-> 585]>>
    /\ \A w \in WellFormedInstrs :
          (Finished /\ source_code = w.text) =>
              /\ pc = "returned"
              /\ result = <<w.record>>
              /\ DOMAIN result[1] = FieldsOf(w.record.A)
    /\ pc = "returned" =>
          \A k \in 1..Len(result) :
              /\ result[k].A \in {20, 12, 19}
              /\ DOMAIN result[k] = FieldsOf(result[k].A)

C1_Witness ==
    /\ pc = "returned"
    /\ \E w \in WellFormedInstrs : source_code = w.text
    /\ Len(result) = 1
    /\ result[1].A = 19
    /\ result[1].B # result[1].C
    /\ result[1].D # result[1].E

\* C2: a source with an invalid instruction yields no record sequence at
\* all, and the one error raised is that of the first invalid instruction
\* in source-line order, whatever the later lines hold.
C2_FailFast ==
    /\ pc = "raised" => result = NoValue
    /\ pc = "returned" => error = NoValue
    /\ (Finished /\ \E i \in 1..Len(lines) : IsInvalidLine(lines[i])) =>
          /\ pc = "raised"
          /\ result = NoValue
          /\ error = ExpectedError[lines[FirstInvalid(lines)]]

C2_Witness ==
    /\ pc = "raised"
    /\ intermediate_representation # <<>>
    /\ \E i \in 1..Len(lines) :
          /\ i > FirstInvalid(lines)
          /\ IsInvalidLine(lines[i])
          /\ ExpectedError[lines[i]] # error

\* C3: at every step of the pass the accumulating output is the encodings,
\* in source order, of the instruction lines processed so far; on success
\* there is one record per line that is neither blank nor a comment line,
\* the k-th from the k-th such line, and a source with no such line yields
\* the empty sequence without error.
C3_OrderAndCount ==
    /\ pc = "assemble" =>
          intermediate_representation =
              [k \in 1..(cmd_idx - 1) |->
                  ExpectedRecordOf(InstructionLines(lines)[k])]
    /\ pc = "returned" =>
          result = [k \in 1..Len(InstructionLines(lines)) |->
                       ExpectedRecordOf(InstructionLines(lines)[k])]
    /\ (Finished /\ InstructionLines(lines) = <<>>) =>
          pc = "returned" /\ result = <<>> /\ error = NoValue

C3_Witness ==
    /\ pc = "returned"
    /\ Len(result) >= 2
    /\ result[1] # result[2]
    /\ Len(lines) > Len(result)
    /\ \E i \in 1..Len(lines) : IsCommentLine(lines[i])

\* C4: within one instruction the checks run in the order mnemonic, argument
\* count, arguments left to right: an unknown mnemonic raises UnknownMnemonic
\* whatever its arguments, a known mnemonic with a wrong count raises
\* ArityMismatch even when an argument is no number, and with the right
\* count InvalidNumber reports the leftmost invalid argument.
C4_CheckOrder ==
    (Finished /\ Len(commands) = 1) =>
        LET mnemonic == commands[1].mnemonic
            args     == commands[1].args
        IN  IF mnemonic \notin DOMAIN ClaimedOpcode
            THEN /\ pc = "raised"
                 /\ error.kind = "UnknownMnemonic"
                 /\ error.mnemonic = mnemonic
            ELSE IF Len(args) # ClaimedArity[mnemonic]
            THEN pc = "raised" /\ error.kind = "ArityMismatch"
            ELSE IF \E i \in 1..Len(args) : ~IsValidLiteral(args[i])
            THEN /\ pc = "raised"
                 /\ error.kind = "InvalidNumber"
                 /\ [text |-> error.text, base |-> error.base]
                        = RejectedAsOf(args[LeftmostInvalid(args)])
            ELSE pc = "returned"

C4_Witness ==
    /\ pc = "raised"
    /\ error.kind = "InvalidNumber"
    /\ Len(commands) = 1
    /\ \E i \in 1..Len(commands[1].args) :
          /\ i > LeftmostInvalid(commands[1].args)
          /\ ~IsValidLiteral(commands[1].args[i])
          /\ RejectedAsOf(commands[1].args[i])
                # RejectedAsOf(commands[1].args[LeftmostInvalid(commands[1].args)])

\* the digits a hexadecimal argument may have after its prefix
IsHexDigit(c) ==
    c \in {"0","1","2","3","4","5","6","7","8","9",
           "a","b","c","d","e","f","A","B","C","D","E","F"}

RECURSIVE Base16(_, _)
\* the base-16 value of a run of hexadecimal digits
Base16(digits, acc) ==
    IF digits = <<>> THEN acc
    ELSE Base16(Tail(digits),
                acc * 16 + (CHOOSE v \in 0..15 :
                               HexDigits[v + 1] = Head(digits)
                               \/ HexDigitsUpper[v + 1] = Head(digits)))

\* C5: a '0x'-prefixed argument is accepted exactly when one or more
\* hexadecimal digits follow the prefix, and then yields their base-16
\* value; any other text after the prefix (a sign, an underscore, a second
\* prefix, inner whitespace, nothing) raises InvalidNumber, as does a
\* '0X'-prefixed argument.
C5_HexDigitsOnly ==
    (Finished /\ Len(commands) = 1 /\ Len(commands[1].args) = 2
        /\ Len(commands[1].args[1]) >= 2 /\ commands[1].args[1][1] = "0"
        /\ commands[1].args[1][2] \in {"x", "X"}) =>
        LET arg  == commands[1].args[1]
            rest == SubSeq(arg, 3, Len(arg))
        IN  IF arg[2] = "x" /\ rest # <<>>
               /\ \A i \in 1..Len(rest) : IsHexDigit(rest[i])
            THEN /\ pc = "returned"
                 /\ result[1].B = Base16(rest, 0)
            ELSE /\ pc = "raised"
                 /\ error.kind = "InvalidNumber"

\* C6: whatever calls came before, the failed ones included, translating
\* the same source again gives the same record sequence or the same error,
\* and no call changes the mnemonic table.
C6_Repeatable ==
    /\ mnemonics = MnemonicTable
    /\ (Finished /\ memo # NoValue /\ memo.source = source_code) =>
          memo.result = result /\ memo.error = error

C6_Witness ==
    /\ pc = "returned"
    /\ memo # NoValue
    /\ memo.source = source_code
    /\ memo.between = "raised"
    /\ result # <<>>

\* the text of a line before its first ';' (the whole line if it has none)
Uncommented(line) ==
    IF \E i \in 1..Len(line) : line[i] = ";"
    THEN SubSeq(line, 1,
                (CHOOSE i \in 1..Len(line) :
                    line[i] = ";" /\ \A j \in 1..(i - 1) : line[j] # ";") - 1)
    ELSE line

RECURSIVE CommandsOfUncommented(_)
\* what the lines parse to once each is cut at its first ';'
CommandsOfUncommented(ls) ==
    IF ls = <<>> THEN <<>>
    ELSE (IF parse_line(Uncommented(Head(ls))).kind = "command"
          THEN <<[mnemonic |-> parse_line(Uncommented(Head(ls))).mnemonic,
                  args     |-> parse_line(Uncommented(Head(ls))).args]>>
          ELSE <<>>)
         \o CommandsOfUncommented(Tail(ls))

\* C7: a line L followed by ';' and any comment text, further ';' included,
\* parses to the same (mnemonic, argument list) as L alone.
C7_TrailingComment ==
    Parsed => commands = CommandsOfUncommented(lines)

C7_Witness ==
    /\ Parsed
    /\ Len(lines) = 1
    /\ Len(commands) = 1
    /\ commands[1].args # <<>>
    /\ Cardinality({i \in 1..Len(source_code) : source_code[i] = ";"}) >= 2

\* C8 as stated: the ArityMismatch raised for a known mnemonic with a wrong
\* number of arguments carries the mnemonic, the expected count and the
\* actual count.
C8_CarriesActualCount ==
    (Finished /\ Len(commands) = 1
        /\ commands[1].mnemonic \in DOMAIN ClaimedOpcode
        /\ Len(commands[1].args) # ClaimedArity[commands[1].mnemonic]) =>
        /\ pc = "raised"
        /\ error.kind = "ArityMismatch"
        /\ error.mnemonic = commands[1].mnemonic
        /\ error.expected = ClaimedArity[commands[1].mnemonic]
        /\ "actual" \in DOMAIN error
        /\ error.actual = Len(commands[1].args)

\* C8 as amended: the ArityMismatch raised for a known mnemonic with a wrong
\* number of arguments carries the mnemonic and the expected count, and
\* nothing else: not the count found on the line.
C8_CarriesMnemonicAndExpected ==
    (Finished /\ Len(commands) = 1
        /\ commands[1].mnemonic \in DOMAIN ClaimedOpcode
        /\ Len(commands[1].args) # ClaimedArity[commands[1].mnemonic]) =>
        /\ pc = "raised"
        /\ error.kind = "ArityMismatch"
        /\ error.mnemonic = commands[1].mnemonic
        /\ error.expected = ClaimedArity[commands[1].mnemonic]
        /\ DOMAIN error = {"kind", "mnemonic", "expected"}

C8_Witness ==
    /\ pc = "raised"
    /\ error.kind = "ArityMismatch"
    /\ error.mnemonic = BINARY_OP
    /\ Len(commands[1].args) = 3

\* C9 as stated: a well-formed instruction line with a ',' appended to its
\* argument list translates without error to the record of the line without
\* the trailing comma.
C9_TrailingCommaAccepted ==
    \A w \in WellFormedInstrs :
        (Finished /\ source_code = w.text \o <<",">>) =>
            pc = "returned" /\ result = <<w.record>>

\* C9 as amended: a well-formed instruction line with a ',' appended to its
\* argument list is rejected: the comma leaves an empty last argument, the
\* count is one too many, ArityMismatch is raised and no record is returned.
C9_TrailingCommaRejected ==
    \A w \in WellFormedInstrs :
        (Finished /\ source_code = w.text \o <<",">>) =>
            /\ pc = "raised"
            /\ result = NoValue
            /\ error.kind = "ArityMismatch"
            /\ error.expected = w.arity
            /\ Len(commands[1].args) = w.arity + 1
            /\ commands[1].args[w.arity + 1] = <<>>

C9_Witness ==
    /\ pc = "raised"
    /\ \E w \in WellFormedInstrs :
          source_code = w.text \o <<",">> /\ w.arity = 4

\* C10: parse_line returns nothing exactly for the blank and the comment
\* lines and otherwise a pair whose mnemonic is a non-empty token; it never
\* raises, so parse_source goes through all the lines, no SyntaxError is
\* ever raised and every error comes from the encoder.
C10_ParserTotal ==
    /\ error.kind \in {"None", "UnknownMnemonic", "ArityMismatch",
                       "InvalidNumber"}
    /\ pc = "parse_source" =>
          Len(commands) = Len(InstructionLines(SubSeq(lines, 1, line_num - 1)))
    /\ Parsed =>
          /\ line_num = Len(lines) + 1
          /\ Len(commands) = Len(InstructionLines(lines))
    /\ \A k \in 1..Len(commands) :
          /\ commands[k].mnemonic # <<>>
          /\ \A i \in 1..Len(commands[k].mnemonic) :
                ~IsSpace(commands[k].mnemonic[i])

C10_Witness ==
    /\ pc = "raised"
    /\ Len(lines) >= 2
    /\ Len(commands) >= 1
    /\ \E i \in 1..Len(lines) : IsCommentLine(lines[i])
    /\ \E i \in 1..Len(lines) : IsBlank(lines[i])

=============================================================================
